---- MODULE Spec2Model ----
(***************************************************************************)
(* target-postgres: the message loop of persist_lines, flush_records,      *)
(* emit_state and main (src/target_postgres/__init__.py).                  *)
(*                                                                         *)
(* Python dicts are functions whose DOMAIN is the set of keys present.     *)
(* The sink adapter (DbSync, db_sync.py) and the jsonschema validator are  *)
(* collaborators: their results are modelled from the specification, and   *)
(* whether a call of theirs raises is an input of the step.                *)
(***************************************************************************)
EXTENDS Integers, Sequences, FiniteSets, TLC

\* ------------------------------------------------------------------ bounds
MaxMsgs == 4          \* input lines read before end-of-input
MaxBatchSize == 2     \* largest configured batch_size (besides the default)
MaxSchemaMsgs == 2    \* SCHEMA lines read in the precision specification

\* ------------------------------------------------------- program constants
DefaultBatchSize == 100000
DefaultPrec == 28     \* decimal.getcontext().prec of a fresh interpreter

\* ------------------------------------------------------------------ inputs
Streams == {"a", "b"}
NoRecord == [id |-> "", v |-> 0]
\* record payloads: the key field id and a value field v the schema bounds
Records == {[id |-> "1", v |-> 1], [id |-> "2", v |-> 1],
            [id |-> "3", v |-> 1], [id |-> "", v |-> 1],
            [id |-> "1", v |-> 2]}
\* schema documents, named by the maximum they allow for v
SchemaDocs == {1, 2}
KeyProps == {<< >>, <<"id">>}
Null == "null"
StateValues == {"ck1", "ck2"}
\* config files: no batch_size key (-1), or a batch_size
Configs == {-1} \cup (0 .. MaxBatchSize)

\* a decimal number m * 10^e of a schema document: m in 1..9, or 0 for zero
\* and -1 for a negative number
Dec(m, e) == [m |-> m, e |-> e]

\* a subschema (a dict) of a schema document.  keys are the keys present,
\* type is the value of 'type': a string, or a list of strings
Field(ks, isList, names, mult, min, max) ==
    [keys |-> ks, type |-> [list |-> isList, names |-> names],
     multipleOf |-> mult, minimum |-> min, maximum |-> max]

\* the subschema of v in schema document d: {type: number, maximum: d}
VField(d) ==
    Field({"type", "maximum"}, FALSE, {"number"}, Dec(1, 0), Dec(1, 0),
          Dec(d, 0))

\* fields: the subschemas of o['schema'], in the order the walk meets them
Filler == [json |-> TRUE, keys |-> {}, type |-> "", stream |-> "",
           record |-> NoRecord, value |-> Null, schema |-> 0,
           fields |-> << >>, key_properties |-> << >>]

RecordMsgs ==
    {[Filler EXCEPT !.keys = {"type", "stream", "record"}, !.type = "RECORD",
                    !.stream = s, !.record = r] : s \in Streams, r \in Records}
    \cup {[Filler EXCEPT !.keys = {"type", "record"}, !.type = "RECORD"],
          [Filler EXCEPT !.keys = {"type", "stream"}, !.type = "RECORD",
                         !.stream = "a"]}
StateMsgs ==
    {[Filler EXCEPT !.keys = {"type", "value"}, !.type = "STATE", !.value = x] :
        x \in StateValues \cup {Null}}
    \cup {[Filler EXCEPT !.keys = {"type"}, !.type = "STATE"]}
SchemaMsgs ==
    {[Filler EXCEPT !.keys = {"type", "stream", "schema", "key_properties"},
                    !.type = "SCHEMA", !.stream = s, !.schema = d,
                    !.fields = <<VField(d)>>, !.key_properties = k] :
        s \in Streams, d \in SchemaDocs, k \in KeyProps}
    \cup {[Filler EXCEPT !.keys = {"type", "stream", "schema"},
                         !.type = "SCHEMA", !.stream = s, !.schema = 2,
                         !.fields = <<VField(2)>>] :
            s \in Streams}
    \cup {[Filler EXCEPT !.keys = {"type", "schema", "key_properties"},
                         !.type = "SCHEMA", !.schema = 2,
                         !.fields = <<VField(2)>>],
          [Filler EXCEPT !.keys = {"type", "stream", "key_properties"},
                         !.type = "SCHEMA", !.stream = "a"]}
OtherMsgs ==
    {[Filler EXCEPT !.keys = {"type"}, !.type = "ACTIVATE_VERSION"],
     [Filler EXCEPT !.keys = {"type"}, !.type = "BATCH"],
     [Filler EXCEPT !.keys = {"stream"}, !.stream = "a"],
     [Filler EXCEPT !.json = FALSE]}
Msgs == RecordMsgs \cup StateMsgs \cup SchemaMsgs \cup OtherMsgs

\* ------------------------------------------------------------------- state
VARIABLES
    pc,                  \* "reading" | "returned" | "done" | "failed"
    line_no,             \* number of input lines read
    o,                   \* the message of the line being processed
    state,               \* the pending checkpoint (Null is None)
    schemas,             \* stream -> its last SCHEMA message
    key_properties,      \* stream -> key_properties
    validators,          \* stream -> schema document the validator is bound to
    csv_files_to_load,   \* stream -> rows written to the temporary file
    row_count,           \* stream -> rows counted since the last reset
    row_count_order,     \* insertion order of row_count's keys
    stream_to_sync,      \* stream -> sink handle
    primary_key_exists,  \* stream -> set of key strings
    batch_size,
    prec,                \* decimal.getcontext().prec
    calibration,         \* scale, digits, precision computed for o's subschemas
    calls,               \* sink-adapter calls made for the message o
    loads,               \* every load_csv call so far
    emitted,             \* lines written to stdout
    accepted,            \* stream -> rows validated and staged so far
    redeclared,          \* streams that received a second SCHEMA
    last_state,          \* value of the last STATE message read ("" if none)
    record_after_state   \* a RECORD was staged after the last STATE message

vars == <<pc, line_no, o, state, schemas, key_properties, validators,
          csv_files_to_load, row_count, row_count_order, stream_to_sync,
          primary_key_exists, batch_size, prec, calibration, calls, loads,
          emitted, accepted, redeclared, last_state, record_after_state>>

EmptyDict == [x \in {} |-> 0]

\* d[k] = v on a dict
DictSet(d, k, v) == [x \in (DOMAIN d) \cup {k} |-> IF x = k THEN v ELSE d[x]]

Init ==
    /\ pc = "reading"
    /\ line_no = 0
    /\ o = Filler
    /\ state = Null
    /\ schemas = EmptyDict
    /\ key_properties = EmptyDict
    /\ validators = EmptyDict
    /\ csv_files_to_load = EmptyDict
    /\ row_count = EmptyDict
    /\ row_count_order = << >>
    /\ stream_to_sync = EmptyDict
    /\ primary_key_exists = EmptyDict
    /\ \E c \in Configs : batch_size = IF c = -1 THEN DefaultBatchSize ELSE c
    /\ prec = DefaultPrec
    /\ calibration = << >>
    /\ calls = << >>
    /\ loads = << >>
    /\ emitted = << >>
    /\ accepted = [s \in Streams |-> << >>]
    /\ redeclared = {}
    /\ last_state = ""
    /\ record_after_state = FALSE

\* ------------------------------------------------- collaborators' results
\* jsonschema: the record conforms to the schema document the validator holds
validate(schema, record) == record.v <= schema

\* the sink handle built from a SCHEMA message
DbSync(m) == [stream |-> m.stream, key_properties |-> m.key_properties]

\* "" stands for both None (no key properties) and the empty string: the
\* code only tests the result's truth value
record_primary_key_string(sync, record) ==
    IF sync.key_properties = << >> THEN "" ELSE record.id

record_to_csv_line(sync, record) == <<record.id, record.v>>

\* ------------------------------------------------------ the program state
\* the local variables of persist_lines (and the history kept beside them)
\* as one record, so that a handler is a function from state to state
Cur ==
    [pc |-> pc, line_no |-> line_no, o |-> o, state |-> state, schemas |-> schemas,
     key_properties |-> key_properties, validators |-> validators,
     csv_files_to_load |-> csv_files_to_load, row_count |-> row_count,
     row_count_order |-> row_count_order, stream_to_sync |-> stream_to_sync,
     primary_key_exists |-> primary_key_exists, prec |-> prec,
     calibration |-> calibration, calls |-> calls,
     loads |-> loads, accepted |-> accepted, redeclared |-> redeclared,
     last_state |-> last_state, record_after_state |-> record_after_state]

Commit(c) ==
    /\ pc' = c.pc
    /\ line_no' = c.line_no
    /\ o' = c.o
    /\ state' = c.state
    /\ schemas' = c.schemas
    /\ key_properties' = c.key_properties
    /\ validators' = c.validators
    /\ csv_files_to_load' = c.csv_files_to_load
    /\ row_count' = c.row_count
    /\ row_count_order' = c.row_count_order
    /\ stream_to_sync' = c.stream_to_sync
    /\ primary_key_exists' = c.primary_key_exists
    /\ prec' = c.prec
    /\ calibration' = c.calibration
    /\ calls' = c.calls
    /\ loads' = c.loads
    /\ accepted' = c.accepted
    /\ redeclared' = c.redeclared
    /\ last_state' = c.last_state
    /\ record_after_state' = c.record_after_state

\* an exception leaves persist_lines: main does not catch it
Raise(c) == [c EXCEPT !.pc = "failed"]

\* sync.load_csv(file, count): the call is logged whether or not it raises
load_csv(c, stream, why, ok) ==
    [c EXCEPT !.calls = Append(@, "load_csv"),
              !.loads = Append(@, [stream |-> stream,
                                   rows |-> c.csv_files_to_load[stream],
                                   count |-> c.row_count[stream],
                                   why |-> why, ok |-> ok,
                                   at |-> c.line_no])]

flush_records(c, stream, why, ok) ==
    LET c1 == load_csv(c, stream, why, ok)
    IN  IF ~ok THEN Raise(c1)
        ELSE [c1 EXCEPT !.row_count[stream] = 0,
                        !.primary_key_exists[stream] = {},
                        !.csv_files_to_load[stream] = << >>]

\* stage_key that looks the key up in the key sets of all streams
stage_key_SharedKeys(c, stream, record, ok) ==
    LET sync == c.stream_to_sync[stream]
        pks == record_primary_key_string(sync, record)
        c1 == [c EXCEPT !.calls = Append(@, "record_primary_key_string")]
        c2 == IF stream \notin DOMAIN c1.primary_key_exists
              THEN [c1 EXCEPT !.primary_key_exists =
                                  DictSet(@, stream, {})]
              ELSE c1
    IN  IF pks # "" /\ pks \in UNION {c2.primary_key_exists[t] :
                                          t \in DOMAIN c2.primary_key_exists}
        THEN flush_records(c2, stream, "duplicate", ok)
        ELSE c2

\* lines 120-124: the key string, and the flush of a batch that holds it
stage_key(c, stream, record, ok) ==
    LET sync == c.stream_to_sync[stream]
        pks == record_primary_key_string(sync, record)
        c1 == [c EXCEPT !.calls = Append(@, "record_primary_key_string")]
        c2 == IF stream \notin DOMAIN c1.primary_key_exists
              THEN [c1 EXCEPT !.primary_key_exists =
                                  DictSet(@, stream, {})]
              ELSE c1
    IN  IF pks # "" /\ pks \in c2.primary_key_exists[stream]
        THEN flush_records(c2, stream, "duplicate", ok)
        ELSE c2

\* stage_row without line 130: the key is not remembered
stage_row_ForgetsKey(c, stream, record) ==
    LET sync == c.stream_to_sync[stream]
        pks == record_primary_key_string(sync, record)
        row == [line |-> record_to_csv_line(sync, record), pk |-> pks,
                n |-> c.line_no]
    IN  [c EXCEPT !.calls = Append(@, "record_to_csv_line"),
                  !.csv_files_to_load[stream] = Append(@, row),
                  !.accepted[stream] = Append(@, row),
                  !.row_count[stream] = @ + 1]

\* lines 126-130: serialise, append, count, remember the key
stage_row(c, stream, record) ==
    LET sync == c.stream_to_sync[stream]
        pks == record_primary_key_string(sync, record)
        row == [line |-> record_to_csv_line(sync, record), pk |-> pks,
                n |-> c.line_no]
    IN  [c EXCEPT !.calls = Append(@, "record_to_csv_line"),
                  !.csv_files_to_load[stream] = Append(@, row),
                  !.accepted[stream] = Append(@, row),
                  !.row_count[stream] = @ + 1,
                  !.primary_key_exists[stream] =
                      IF pks # "" THEN @ \cup {pks} ELSE @]

\* maybe_flush with > for >= on line 132
maybe_flush_StrictlyAbove(c, stream, ok) ==
    IF c.row_count[stream] > batch_size
    THEN flush_records(c, stream, "batch_size", ok)
    ELSE c

\* lines 132-133
maybe_flush(c, stream, ok) ==
    IF c.row_count[stream] >= batch_size
    THEN flush_records(c, stream, "batch_size", ok)
    ELSE c

\* handle_record that skips a record of an undeclared stream instead of
\* raising on lines 108-110
handle_record_SkipsUndeclared(c, m, ok1, ok2) ==
    IF "stream" \notin m.keys THEN Raise(c)
    ELSE IF m.stream \notin DOMAIN c.schemas THEN c
    ELSE IF "record" \notin m.keys THEN Raise(c)
    ELSE IF ~validate(c.validators[m.stream], m.record) THEN Raise(c)
    ELSE LET c1 == stage_key(c, m.stream, m.record, ok1)
             c2 == stage_row(c1, m.stream, m.record)
             c3 == maybe_flush(c2, m.stream, ok2)
         IN  IF c1.pc = "failed" THEN c1
             ELSE IF c3.pc = "failed" THEN c3
             ELSE [c3 EXCEPT !.state = Null, !.record_after_state = TRUE]

\* handle_record that validates (line 116) after the duplicate flush
handle_record_ValidatesLate(c, m, ok1, ok2) ==
    IF "stream" \notin m.keys THEN Raise(c)
    ELSE IF m.stream \notin DOMAIN c.schemas THEN Raise(c)
    ELSE IF "record" \notin m.keys THEN Raise(c)
    ELSE LET c1 == stage_key(c, m.stream, m.record, ok1)
             c2 == stage_row(c1, m.stream, m.record)
             c3 == maybe_flush(c2, m.stream, ok2)
         IN  IF c1.pc = "failed" THEN c1
             ELSE IF ~validate(c.validators[m.stream], m.record)
                  THEN Raise(c1)
             ELSE IF c3.pc = "failed" THEN c3
             ELSE [c3 EXCEPT !.state = Null, !.record_after_state = TRUE]

\* handle_record without line 135
handle_record_KeepsState(c, m, ok1, ok2) ==
    IF "stream" \notin m.keys THEN Raise(c)
    ELSE IF m.stream \notin DOMAIN c.schemas THEN Raise(c)
    ELSE IF "record" \notin m.keys THEN Raise(c)
    ELSE IF ~validate(c.validators[m.stream], m.record) THEN Raise(c)
    ELSE LET c1 == stage_key(c, m.stream, m.record, ok1)
             c2 == stage_row(c1, m.stream, m.record)
             c3 == maybe_flush(c2, m.stream, ok2)
         IN  IF c1.pc = "failed" THEN c1
             ELSE IF c3.pc = "failed" THEN c3
             ELSE [c3 EXCEPT !.record_after_state = TRUE]

\* lines 105-135
handle_record(c, m, ok1, ok2) ==
    IF "stream" \notin m.keys THEN Raise(c)
    ELSE IF m.stream \notin DOMAIN c.schemas THEN Raise(c)
    ELSE IF "record" \notin m.keys THEN Raise(c)
    ELSE IF ~validate(c.validators[m.stream], m.record) THEN Raise(c)
    ELSE LET c1 == stage_key(c, m.stream, m.record, ok1)
             c2 == stage_row(c1, m.stream, m.record)
             c3 == maybe_flush(c2, m.stream, ok2)
         IN  IF c1.pc = "failed" THEN c1
             ELSE IF c3.pc = "failed" THEN c3
             ELSE [c3 EXCEPT !.state = Null, !.record_after_state = TRUE]

\* handle_state that keeps a checkpoint already pending
handle_state_KeepsFirst(c, m) ==
    IF "value" \notin m.keys THEN Raise(c)
    ELSE [c EXCEPT !.state = IF c.state # Null THEN c.state ELSE m.value,
                   !.last_state = m.value,
                   !.record_after_state = FALSE]

\* lines 136-138
handle_state(c, m) ==
    IF "value" \notin m.keys THEN Raise(c)
    ELSE [c EXCEPT !.state = m.value, !.last_state = m.value,
                   !.record_after_state = FALSE]

\* lines 36-46
numeric_schema_with_precision(schema) ==
    IF "type" \notin schema.keys THEN FALSE
    ELSE IF schema.type.list /\ "number" \notin schema.type.names THEN FALSE
    ELSE IF ~schema.type.list /\ schema.type.names # {"number"} THEN FALSE
    ELSE IF "multipleOf" \in schema.keys THEN TRUE
    ELSE "minimum" \in schema.keys \/ "maximum" \in schema.keys

\* math.log10 of a decimal: the result is kept as its floor and its ceiling,
\* which is all that get_precision reads of it
log10(x) == [floor |-> x.e, ceil |-> IF x.m = 1 THEN x.e ELSE x.e + 1]

\* math.log10 raises ValueError (math domain error) for 0 and below
log10_raises(x) == x.m <= 0

\* schema.get(key, 1)
schema_get(schema, key) == IF key \in schema.keys THEN schema[key] ELSE Dec(1, 0)

\* get_precision with the branches of lines 57-59 exchanged
get_precision_CeilBelowOne(schema, key) ==
    LET v == log10(schema_get(schema, key))
    IN  IF v.floor < 0 THEN v.ceil ELSE v.floor

\* lines 55-59; v < 0 iff floor(v) < 0
get_precision(schema, key) ==
    LET v == log10(schema_get(schema, key))
    IN  IF v.floor < 0 THEN v.floor ELSE v.ceil

Max(a, b) == IF a >= b THEN a ELSE b

\* lines 60-65 with an unconditional assignment on line 65
calibrate_AlwaysSets(c, schema) ==
    IF \E k \in {"multipleOf", "minimum", "maximum"} :
           log10_raises(schema_get(schema, k))
    THEN Raise(c)
    ELSE LET scale == -1 * get_precision(schema, "multipleOf")
             digits == Max(get_precision(schema, "minimum"),
                           get_precision(schema, "maximum"))
             precision == digits + scale
         IN  [c EXCEPT !.calibration =
                           Append(@, [scale |-> scale, digits |-> digits,
                                      precision |-> precision]),
                       !.prec = precision]

\* lines 60-65: scale, digits, precision, and the raise of the context's prec
calibrate(c, schema) ==
    IF \E k \in {"multipleOf", "minimum", "maximum"} :
           log10_raises(schema_get(schema, k))
    THEN Raise(c)
    ELSE LET scale == -1 * get_precision(schema, "multipleOf")
             digits == Max(get_precision(schema, "minimum"),
                           get_precision(schema, "maximum"))
             precision == digits + scale
         IN  [c EXCEPT !.calibration =
                           Append(@, [scale |-> scale, digits |-> digits,
                                      precision |-> precision]),
                       !.prec = IF c.prec < precision THEN precision ELSE @]

RECURSIVE walk_schema_for_numeric_precision(_, _)
\* lines 49-68, over the subschemas of the document in walk order: a dict
\* that is no constrained number holds only scalars and lists of strings
walk_schema_for_numeric_precision(c, fields) ==
    IF fields = << >> THEN c
    ELSE LET c1 == IF numeric_schema_with_precision(Head(fields))
                   THEN calibrate(c, Head(fields))
                   ELSE c
         IN  IF c1.pc = "failed" THEN c1
             ELSE walk_schema_for_numeric_precision(c1, Tail(fields))

\* lines 139-154; sink names the adapter call that raises, or is "ok"
handle_schema(c, m, sink) ==
    IF "stream" \notin m.keys THEN Raise(c)
    ELSE
    LET stream == m.stream
        c1 == [c EXCEPT !.schemas = DictSet(@, stream, m),
                        !.redeclared = IF stream \in DOMAIN c.schemas
                                       THEN @ \cup {stream} ELSE @]
        cw == walk_schema_for_numeric_precision(c1, m.fields)
        c2 == [cw EXCEPT !.validators = DictSet(@, stream, m.schema)]
        c3 == [c2 EXCEPT !.key_properties =
                             DictSet(@, stream, m.key_properties),
                         !.calls = Append(@, "DbSync")]
        c4 == [c3 EXCEPT !.stream_to_sync = DictSet(@, stream, DbSync(m)),
                         !.calls = Append(@, "create_schema_if_not_exists")]
        c5 == [c4 EXCEPT !.calls = Append(@, "sync_table")]
        c6 == [c5 EXCEPT !.row_count = DictSet(@, stream, 0),
                         !.row_count_order =
                             IF stream \in DOMAIN c5.row_count
                             THEN @ ELSE Append(@, stream),
                         !.csv_files_to_load = DictSet(@, stream, << >>)]
    IN  IF "schema" \notin m.keys THEN Raise(c1)
        ELSE IF cw.pc = "failed" THEN cw
        ELSE IF "key_properties" \notin m.keys THEN Raise(c2)
        ELSE IF sink = "DbSync" THEN Raise(c3)
        ELSE IF sink = "create_schema_if_not_exists" THEN Raise(c4)
        ELSE IF sink = "sync_table" THEN Raise(c5)
        ELSE c6

\* handle_line that ignores a message of unknown type (no lines 157-159)
handle_line_IgnoresUnknown(c, m, sink, ok1, ok2) ==
    LET c0 == [c EXCEPT !.line_no = @ + 1, !.o = m, !.calls = << >>,
                        !.calibration = << >>]
    IN  IF ~m.json THEN Raise(c0)
        ELSE IF "type" \notin m.keys THEN Raise(c0)
        ELSE IF m.type = "RECORD" THEN handle_record(c0, m, ok1, ok2)
        ELSE IF m.type = "STATE" THEN handle_state(c0, m)
        ELSE IF m.type = "SCHEMA" THEN handle_schema(c0, m, sink)
        ELSE c0

\* lines 94-159: one iteration of the loop over the input lines
handle_line(c, m, sink, ok1, ok2) ==
    LET c0 == [c EXCEPT !.line_no = @ + 1, !.o = m, !.calls = << >>,
                        !.calibration = << >>]
    IN  IF ~m.json THEN Raise(c0)
        ELSE IF "type" \notin m.keys THEN Raise(c0)
        ELSE IF m.type = "RECORD" THEN handle_record(c0, m, ok1, ok2)
        ELSE IF m.type = "STATE" THEN handle_state(c0, m)
        ELSE IF m.type = "SCHEMA" THEN handle_schema(c0, m, sink)
        ELSE IF m.type = "ACTIVATE_VERSION" THEN c0
        ELSE Raise(c0)

SinkOutcomes == {"ok", "DbSync", "create_schema_if_not_exists", "sync_table"}

\* the inputs of a step that the message's handler does not read are fixed,
\* so that a step is enumerated once
ReadLine ==
    /\ pc = "reading"
    /\ line_no < MaxMsgs
    /\ \E m \in Msgs :
       \E sink \in (IF m.type = "SCHEMA" THEN SinkOutcomes ELSE {"ok"}) :
       \E ok1, ok2 \in (IF m.type = "RECORD" THEN BOOLEAN ELSE {TRUE}) :
          Commit(handle_line(Cur, m, sink, ok1, ok2))
    /\ UNCHANGED <<batch_size, emitted>>

RECURSIVE final_loads(_, _, _, _)
\* lines 161-163: the streams of row_count in insertion order; failAt is the
\* position of the load_csv call that raises (0: none does)
final_loads(c, order, k, failAt) ==
    IF order = << >> THEN c
    ELSE LET stream == Head(order)
         IN  IF c.row_count[stream] > 0
             THEN IF k = failAt
                  THEN Raise(load_csv(c, stream, "end", FALSE))
                  ELSE final_loads(load_csv(c, stream, "end", TRUE),
                                   Tail(order), k + 1, failAt)
             ELSE final_loads(c, Tail(order), k, failAt)

NonEmptyStreams == {s \in DOMAIN row_count : row_count[s] > 0}

\* EndOfInput that returns without the loop of lines 161-163
EndOfInput_NoFinalFlush ==
    /\ pc = "reading"
    /\ Commit([Cur EXCEPT !.calls = << >>, !.calibration = << >>,
                           !.pc = "returned"])
    /\ UNCHANGED <<batch_size, emitted>>

\* lines 161-165: the input is exhausted
EndOfInput ==
    /\ pc = "reading"
    /\ \E failAt \in 0 .. Cardinality(NonEmptyStreams) :
          LET c == final_loads([Cur EXCEPT !.calls = << >>,
                                           !.calibration = << >>],
                               row_count_order, 1, failAt)
          IN  Commit(IF c.pc = "failed" THEN c ELSE [c EXCEPT !.pc = "returned"])
    /\ UNCHANGED <<batch_size, emitted>>

\* lines 71-76
emit_state(out, value) == IF value # Null THEN Append(out, value) ELSE out

\* main that emits the pending checkpoint in a finally clause
Emit_AlsoOnFailure ==
    /\ pc \in {"returned", "failed"}
    /\ emitted' = emit_state(emitted, state)
    /\ pc' = "done"
    /\ UNCHANGED <<line_no, o, state, schemas, key_properties, validators,
                   csv_files_to_load, row_count, row_count_order,
                   stream_to_sync, primary_key_exists, batch_size, prec,
                   calibration, calls, loads, accepted, redeclared,
                   last_state, record_after_state>>

\* lines 188-191: main, after persist_lines returned
Emit ==
    /\ pc = "returned"
    /\ emitted' = emit_state(emitted, state)
    /\ pc' = "done"
    /\ UNCHANGED <<line_no, o, state, schemas, key_properties, validators,
                   csv_files_to_load, row_count, row_count_order,
                   stream_to_sync, primary_key_exists, batch_size, prec,
                   calibration, calls, loads, accepted, redeclared,
                   last_state, record_after_state>>

Next == ReadLine \/ EndOfInput \/ Emit

Spec == Init /\ [][Next]_vars

\* ------------------------------------------------- history, read by claims
Range(q) == {q[i] : i \in DOMAIN q}

\* the rows handed to a load_csv call of the stream that returned
LoadedRows(s) ==
    UNION {Range(loads[i].rows) : i \in {j \in DOMAIN loads :
                                         loads[j].stream = s /\ loads[j].ok}}

\* the index of the load_csv call of the same stream before call i (0: none)
PreviousFlush(i) ==
    LET before == {j \in 1 .. (i - 1) : loads[j].stream = loads[i].stream}
    IN  IF before = {} THEN 0
        ELSE CHOOSE j \in before : \A k \in before : k <= j

\* the rows of the stream of call i that were staged after the stream's
\* previous flush and before the line that made call i.  A duplicate flush
\* precedes the staging of its own line's record, a batch_size flush follows it
StagedSincePreviousFlush(i) ==
    LET s == loads[i].stream
        j == PreviousFlush(i)
    IN  {r \in Range(accepted[s]) :
            /\ r.n < loads[i].at
            /\ \/ j = 0
               \/ r.n > loads[j].at
               \/ r.n = loads[j].at /\ loads[j].why = "duplicate"}

SeenKeys(s) ==
    IF s \in DOMAIN primary_key_exists THEN primary_key_exists[s] ELSE {}

KeysOf(rows) == {rows[i].pk : i \in DOMAIN rows} \ {""}

LoadsOf(s) == SelectSeq(loads, LAMBDA l : l.stream = s)

\* ------------------------------------------------------------------ claims

\* C1: if a checkpoint is emitted, every RECORD accepted earlier in the input
\* than the STATE message carrying it was handed to a load_csv call that
\* returned before the emission.  (A RECORD clears the pending checkpoint, so
\* at an emission every accepted RECORD precedes that STATE message.)
C1_CheckpointImpliesLoaded ==
    emitted # << >> =>
        \A s \in Streams : Range(accepted[s]) \subseteq LoadedRows(s)

\* C2: no two rows of a block handed to load_csv have the same non-empty
\* primary-key string, whatever triggered the load.
C2_OneRowPerKeyInLoad ==
    \A i \in DOMAIN loads :
        \A j, k \in DOMAIN loads[i].rows :
            (j # k /\ loads[i].rows[j].pk # "")
                => loads[i].rows[j].pk # loads[i].rows[k].pk

C2_Witness ==
    \E i \in DOMAIN loads :
        /\ loads[i].why = "duplicate"
        /\ Cardinality(KeysOf(loads[i].rows)) = 2

\* C3: a flush triggered by a duplicate key is called with a row count equal
\* to the number of records staged since the stream's previous flush, the
\* triggering record excluded.
C3_DuplicateFlushCount ==
    \A i \in DOMAIN loads :
        loads[i].why = "duplicate"
            => loads[i].count = Cardinality(StagedSincePreviousFlush(i))

\* C4: after a staged RECORD the batch_size flush has fired iff the row count
\* reached batch_size, a flush leaves the row count 0 (1 once the record that
\* triggered a duplicate flush is staged), and for batch_size >= 1 every
\* stream's row count is below batch_size between messages.  With
\* batch_size = 2, three records with distinct keys for a stream declared
\* once are loaded as 2 rows mid-stream and 1 row at end-of-input.
C4_ThresholdFlush ==
    /\ (pc = "reading" /\ o.type = "RECORD") =>
          LET s == o.stream
              last == loads[Len(loads)]
          IN  /\ IF calls[Len(calls)] = "load_csv"
                 THEN /\ last.stream = s /\ last.why = "batch_size"
                      /\ last.count >= batch_size
                      /\ row_count[s] = 0
                 ELSE 1 <= row_count[s] /\ row_count[s] < batch_size
              /\ calls = <<"record_primary_key_string", "load_csv",
                           "record_to_csv_line">> => row_count[s] = 1
    /\ (pc = "reading" /\ batch_size >= 1) =>
          \A s \in DOMAIN row_count : row_count[s] < batch_size
    /\ \A s \in Streams :
          (/\ batch_size = 2 /\ pc \in {"returned", "done"}
           /\ s \notin redeclared
           /\ Len(accepted[s]) = 3
           /\ Cardinality(KeysOf(accepted[s])) = 3)
          => LET l == LoadsOf(s)
             IN  /\ Len(l) = 2
                 /\ l[1].why = "batch_size" /\ l[1].count = 2
                 /\ l[1].rows = SubSeq(accepted[s], 1, 2)
                 /\ l[2].why = "end" /\ l[2].count = 1
                 /\ l[2].rows = SubSeq(accepted[s], 3, 3)

C4_Witness ==
    /\ batch_size = 2 /\ pc = "returned"
    /\ \E s \in Streams :
          /\ s \notin redeclared
          /\ Len(accepted[s]) = 3
          /\ Cardinality(KeysOf(accepted[s])) = 3

\* C5 as stated: a run that completes emits the value of the last STATE
\* message, whatever follows that message.
C5_LastStateEmitted ==
    (pc = "done" /\ last_state \in StateValues) => emitted = <<last_state>>

\* C5 amended: a run that completes emits the value of the last STATE
\* message iff that value is not null and no RECORD was staged after it
\* (SCHEMA and ACTIVATE_VERSION messages may follow); otherwise it emits
\* nothing.
C5_LastStateEmittedUnlessRecordFollows ==
    pc = "done" =>
        emitted = IF last_state \in StateValues /\ ~record_after_state
                  THEN <<last_state>> ELSE << >>

C5_Witness ==
    /\ pc = "done" /\ emitted = <<"ck2">>
    /\ o.type = "SCHEMA" /\ line_no >= 3
    /\ \E s \in Streams : Len(accepted[s]) > 0

\* C6: a RECORD for a stream with no SCHEMA processed fails the run, with no
\* row count, key set, staging block or load changed and no sink-adapter call
\* made for it.
C6_RecordBeforeSchemaFails ==
    [][(/\ pc = "reading" /\ line_no' = line_no + 1
        /\ o'.json /\ "type" \in o'.keys /\ o'.type = "RECORD"
        /\ "stream" \in o'.keys /\ o'.stream \notin DOMAIN schemas)
       => (/\ pc' = "failed"
           /\ calls' = << >>
           /\ UNCHANGED <<row_count, primary_key_exists, csv_files_to_load,
                          loads, accepted, state>>)]_vars

C6_Witness ==
    /\ pc = "failed" /\ o.type = "RECORD"
    /\ "stream" \in o.keys /\ o.stream \notin DOMAIN schemas
    /\ \E s \in DOMAIN row_count : row_count[s] > 0

EndLoadsOf(s) == SelectSeq(loads, LAMBDA l : l.stream = s /\ l.why = "end")

\* C7: when persist_lines returns, every stream with a row count above 0 has
\* had exactly one end-of-input load_csv call, with its block and its count,
\* that returned; a stream with row count 0 has had none; and the checkpoint
\* is written at most once, after persist_lines returned.
C7_FinalFlushThenEmit ==
    /\ Len(emitted) <= 1
    /\ emitted # << >> => pc = "done"
    /\ pc = "reading" => \A i \in DOMAIN loads : loads[i].why # "end"
    /\ pc \in {"returned", "done"} =>
          \A s \in Streams :
              LET e == EndLoadsOf(s)
              IN  IF s \in DOMAIN row_count /\ row_count[s] > 0
                  THEN /\ Len(e) = 1 /\ e[1].ok
                       /\ e[1].rows = csv_files_to_load[s]
                       /\ e[1].count = row_count[s]
                  ELSE e = << >>

C7_Witness ==
    /\ pc = "done" /\ emitted # << >>
    /\ \E s \in DOMAIN row_count : row_count[s] > 0
    /\ \E s \in DOMAIN row_count : row_count[s] = 0

\* C8: between two messages, every declared stream's row count is the number
\* of rows in its staging block and its key set is the set of non-empty key
\* strings of those rows.
C8_StagingStateConsistent ==
    pc = "reading" =>
        \A s \in DOMAIN row_count :
            /\ row_count[s] = Len(csv_files_to_load[s])
            /\ SeenKeys(s) = KeysOf(csv_files_to_load[s])

\* C9: load_csv is never called with a row count of 0.
C9_NoEmptyLoad ==
    \A i \in DOMAIN loads : loads[i].count # 0

\* C10: once a message has raised, nothing more happens: no line is read, no
\* load_csv call is made, nothing is emitted; and the step that raises makes
\* no load_csv call after the error (either it makes none, or its last call
\* is the one that raised), so the rows staged when a message raises have
\* not been loaded.
C10_FailStop ==
    [][/\ pc = "failed" =>
            /\ pc' = "failed" /\ line_no' = line_no
            /\ loads' = loads /\ emitted' = emitted
       /\ pc' = "failed" =>
            /\ emitted' = << >>
            /\ loads' = loads \/ ~loads'[Len(loads')].ok
            /\ line_no' = line_no + 1 =>
                   \A i \in DOMAIN csv_files_to_load' :
                       \A j \in DOMAIN csv_files_to_load'[i] :
                           csv_files_to_load'[i][j] \notin LoadedRows(i)'
      ]_vars

C10_Witness ==
    /\ pc = "failed" /\ state \in StateValues
    /\ \E s \in DOMAIN row_count : row_count[s] > 0

\* ------------------------------------------- the precision specification
\* SCHEMA lines whose documents constrain numbers: the loop of persist_lines
\* over such lines, from the same initial state
Absent == Dec(1, 0)
MultipleOfs ==
    {<<FALSE, Absent>>, <<TRUE, Dec(5, -2)>>, <<TRUE, Dec(5, -1)>>,
     <<TRUE, Dec(5, 0)>>, <<TRUE, Dec(5, 1)>>, <<TRUE, Dec(1, -4)>>,
     <<TRUE, Dec(1, -30)>>, <<TRUE, Dec(1, -35)>>, <<TRUE, Dec(0, 0)>>}
\* <<minimum present, minimum, maximum present, maximum>>
Ranges ==
    {<<FALSE, Absent, FALSE, Absent>>, <<TRUE, Dec(5, -1), FALSE, Absent>>,
     <<FALSE, Absent, TRUE, Dec(5, 0)>>, <<TRUE, Dec(5, 1), TRUE, Dec(1, 7)>>,
     <<TRUE, Dec(-1, 0), TRUE, Dec(1, 7)>>}

NumberFields ==
    {Field({"type"} \cup (IF mu[1] THEN {"multipleOf"} ELSE {})
                    \cup (IF r[1] THEN {"minimum"} ELSE {})
                    \cup (IF r[3] THEN {"maximum"} ELSE {}),
           FALSE, {"number"}, mu[2], r[2], r[4]) :
        mu \in MultipleOfs, r \in Ranges}
OtherFields ==
    {Field({"type", "multipleOf"}, FALSE, {"integer"}, Dec(1, -35), Absent, Absent),
     Field({"type", "multipleOf"}, TRUE, {"null", "number"}, Dec(1, -35), Absent, Absent),
     Field({"type", "multipleOf"}, TRUE, {"null", "integer"}, Dec(1, -35), Absent, Absent),
     Field({"multipleOf"}, FALSE, {}, Dec(1, -35), Absent, Absent)}
F4 == Field({"type", "multipleOf"}, FALSE, {"number"}, Dec(1, -4), Absent, Absent)
F35 == Field({"type", "multipleOf"}, FALSE, {"number"}, Dec(1, -35), Absent, Absent)
FZero == Field({"type", "multipleOf"}, FALSE, {"number"}, Dec(0, 0), Absent, Absent)
Documents ==
    {<<f>> : f \in NumberFields \cup OtherFields}
    \cup {<<F4, F35>>, <<F35, F4>>, <<F35, FZero>>, <<FZero, F35>>}

PrecSchemaMsgs ==
    {[Filler EXCEPT !.keys = {"type", "stream", "schema", "key_properties"},
                    !.type = "SCHEMA", !.stream = s, !.schema = 2,
                    !.fields = d] :
        s \in Streams, d \in Documents}

ReadSchemaLine ==
    /\ pc = "reading"
    /\ line_no < MaxSchemaMsgs
    /\ \E m \in PrecSchemaMsgs :
          Commit(handle_line(Cur, m, "ok", TRUE, TRUE))
    /\ UNCHANGED <<batch_size, emitted>>

InitPrec == Init /\ batch_size = DefaultBatchSize

NextPrec == ReadSchemaLine \/ EndOfInput \/ Emit

SpecPrec == InitPrec /\ [][NextPrec]_vars

\* the subschemas of a document that the walk calibrates, in walk order
NumericFields(fields) == SelectSeq(fields, numeric_schema_with_precision)

\* the precision lines 60-62 compute for a subschema
RequiredPrecision(schema) ==
    Max(get_precision(schema, "minimum"), get_precision(schema, "maximum"))
        - get_precision(schema, "multipleOf")

\* powers of ten against a positive decimal m * 10^e, 1 <= m <= 9
Pow10LeDec(k, x) == k <= x.e
DecLtPow10(x, k) == x.e < k
DecLePow10(x, k) == x.e < k \/ (x.e = k /\ x.m = 1)
Exponents == -40 .. 40
\* floor(log10 x) = k iff 10^k <= x < 10^(k+1)
FloorLog10(x) ==
    CHOOSE k \in Exponents : Pow10LeDec(k, x) /\ DecLtPow10(x, k + 1)
\* ceil(log10 x) = k iff 10^(k-1) < x <= 10^k
CeilLog10(x) ==
    CHOOSE k \in Exponents : DecLePow10(x, k) /\ ~DecLePow10(x, k - 1)
BelowOne(x) == DecLtPow10(x, 0)

\* C11: the decimal precision never decreases, and after any sequence of
\* SCHEMA messages it is at least the precision required by every
\* constrained number of the schemas processed (4 and 7 in either order
\* leave it at 7 or more).
C11_PrecisionMonotonic ==
    /\ [](pc # "failed" =>
            \A s \in DOMAIN schemas :
                \A i \in DOMAIN NumericFields(schemas[s].fields) :
                    prec >= RequiredPrecision(NumericFields(schemas[s].fields)[i]))
    /\ [][prec' >= prec]_vars

C11_Witness ==
    /\ pc = "reading" /\ line_no = 2
    /\ prec = 35
    /\ Len(calibration) = 1 /\ calibration[1].precision = 30

\* C17 as stated: scale = -ceil(log10(multipleOf)) if multipleOf is below 1,
\* else -floor(log10(multipleOf)); digits is the larger of the orders of
\* magnitude of minimum and maximum computed the same way; precision =
\* digits + scale.
OrderAsStated(x) == IF BelowOne(x) THEN CeilLog10(x) ELSE FloorLog10(x)
C17_ScaleCeilBelowOne ==
    (pc = "reading" /\ o.type = "SCHEMA") =>
        \A i \in DOMAIN calibration :
            LET f == NumericFields(o.fields)[i]
            IN  /\ calibration[i].scale = -OrderAsStated(schema_get(f, "multipleOf"))
                /\ calibration[i].digits =
                       Max(OrderAsStated(schema_get(f, "minimum")),
                           OrderAsStated(schema_get(f, "maximum")))
                /\ calibration[i].precision =
                       calibration[i].digits + calibration[i].scale

\* C17 amended: scale = -floor(log10(multipleOf)) if multipleOf is below 1,
\* else -ceil(log10(multipleOf)); digits is the larger of the orders of
\* magnitude of minimum and maximum computed the same way (floor below 1,
\* ceil otherwise, an absent key counting as 1); precision = digits + scale;
\* and every constrained number of the document is calibrated.
OrderAsComputed(x) == IF BelowOne(x) THEN FloorLog10(x) ELSE CeilLog10(x)
C17_ScaleFloorBelowOne ==
    (pc = "reading" /\ o.type = "SCHEMA") =>
        /\ Len(calibration) = Len(NumericFields(o.fields))
        /\ \A i \in DOMAIN calibration :
            LET f == NumericFields(o.fields)[i]
            IN  /\ calibration[i].scale = -OrderAsComputed(schema_get(f, "multipleOf"))
                /\ calibration[i].digits =
                       Max(OrderAsComputed(schema_get(f, "minimum")),
                           OrderAsComputed(schema_get(f, "maximum")))
                /\ calibration[i].precision =
                       calibration[i].digits + calibration[i].scale

C17_Witness ==
    /\ pc = "reading" /\ o.type = "SCHEMA"
    /\ Len(calibration) = 1
    /\ o.fields[1].multipleOf = Dec(5, -2) /\ "multipleOf" \in o.fields[1].keys
    /\ o.fields[1].minimum = Dec(5, 1) /\ "minimum" \in o.fields[1].keys
    /\ calibration[1] = [scale |-> 2, digits |-> 7, precision |-> 9]

\* ------------------------------------------------ claims on the dispatch
\* the step reads a line that parses and has a type
ReadsTyped ==
    /\ pc = "reading" /\ line_no' = line_no + 1
    /\ o'.json /\ "type" \in o'.keys

\* key t of dict d is untouched by the step
SameEntry(d, dNext, t) ==
    /\ (t \in DOMAIN dNext) = (t \in DOMAIN d)
    /\ t \in DOMAIN d => dNext[t] = d[t]

\* C12: an ACTIVATE_VERSION message changes no stream's schema, validator,
\* row count, key set or block nor the pending checkpoint and makes no
\* sink-adapter call; a message of any other type than SCHEMA, RECORD, STATE,
\* ACTIVATE_VERSION fails the run.
C12_ActivateVersionIgnored ==
    [][ReadsTyped =>
        /\ o'.type = "ACTIVATE_VERSION" =>
              /\ pc' = "reading" /\ calls' = << >>
              /\ UNCHANGED <<schemas, validators, key_properties,
                             stream_to_sync, row_count, primary_key_exists,
                             csv_files_to_load, state, loads, prec>>
        /\ o'.type \notin {"SCHEMA", "RECORD", "STATE", "ACTIVATE_VERSION"}
              => pc' = "failed"]_vars

C12_Witness ==
    /\ pc = "reading" /\ o.type = "ACTIVATE_VERSION"
    /\ state \in StateValues
    /\ \E s \in DOMAIN row_count : row_count[s] > 0

RECURSIVE ConcatRows(_)
ConcatRows(ls) ==
    IF ls = << >> THEN << >> ELSE Head(ls).rows \o ConcatRows(Tail(ls))

\* C13: when the run completes, for every stream the rows of its load_csv
\* calls, concatenated in call order, are the stream's accepted records in
\* arrival order.
C13_LoadsAreAcceptedRecords ==
    pc \in {"returned", "done"} =>
        \A s \in Streams : ConcatRows(LoadsOf(s)) = accepted[s]

\* C14: a RECORD that fails validation fails the run before any sink-adapter
\* call: nothing is serialised or appended, no key is remembered, no row is
\* counted and no load_csv call is made, whatever its key.
C14_ValidationPrecedesStaging ==
    [][(/\ ReadsTyped /\ o'.type = "RECORD"
        /\ {"stream", "record"} \subseteq o'.keys
        /\ o'.stream \in DOMAIN schemas
        /\ ~validate(validators[o'.stream], o'.record))
       => (/\ pc' = "failed" /\ calls' = << >>
           /\ UNCHANGED <<csv_files_to_load, primary_key_exists, row_count,
                          loads, accepted>>)]_vars

C14_Witness ==
    /\ pc = "failed" /\ o.type = "RECORD"
    /\ {"stream", "record"} \subseteq o.keys
    /\ o.stream \in DOMAIN validators
    /\ ~validate(validators[o.stream], o.record)
    /\ o.record.id \in SeenKeys(o.stream)

\* C15: the pending checkpoint is None after every staged RECORD, and
\* otherwise the value of the last STATE message (SCHEMA and
\* ACTIVATE_VERSION messages do not change it); a run that completes emits
\* the pending checkpoint, so nothing if a RECORD followed the last STATE.
C15_RecordClearsCheckpoint ==
    /\ state = IF record_after_state \/ last_state = "" THEN Null
               ELSE last_state
    /\ (pc = "reading" /\ o.type = "RECORD") => state = Null
    /\ pc = "done" => emitted = IF state = Null THEN << >> ELSE <<state>>

C15_Witness ==
    /\ pc = "done" /\ record_after_state
    /\ last_state \in StateValues /\ emitted = << >>

\* the load_csv calls the step makes
NewLoads == {i \in DOMAIN loads' : i > Len(loads)}

\* C16: a SCHEMA or RECORD message for stream S leaves every other stream's
\* row count, key set, block, schema and validator unchanged; every load_csv
\* call it makes is for S; and a duplicate flush happens only when the
\* record's key is in S's own key set.
C16_StreamsIsolated ==
    [][(/\ ReadsTyped /\ o'.type \in {"SCHEMA", "RECORD"}
        /\ "stream" \in o'.keys)
       => (/\ \A t \in Streams \ {o'.stream} :
                 /\ SameEntry(row_count, row_count', t)
                 /\ SameEntry(primary_key_exists, primary_key_exists', t)
                 /\ SameEntry(csv_files_to_load, csv_files_to_load', t)
                 /\ SameEntry(schemas, schemas', t)
                 /\ SameEntry(validators, validators', t)
           /\ \A i \in NewLoads :
                 /\ loads'[i].stream = o'.stream
                 /\ loads'[i].why = "duplicate" =>
                       record_primary_key_string(stream_to_sync[o'.stream],
                                                 o'.record)
                           \in SeenKeys(o'.stream))]_vars

C16_Witness ==
    /\ pc = "reading" /\ o.type = "RECORD" /\ o.stream = "a"
    /\ o.record.id \in SeenKeys("a") /\ o.record.id \in SeenKeys("b")
    /\ loads = << >>
    /\ row_count["a"] = 1 /\ row_count["b"] = 1

\* C18: when a SCHEMA message without key_properties fails the run, the
\* stream's stored schema is not that message and no sink-adapter call was
\* made for it.
C18_SchemaWithoutKeysChangesNothing ==
    (/\ pc = "failed" /\ o.json /\ o.type = "SCHEMA"
     /\ {"type", "stream", "schema"} \subseteq o.keys
     /\ "key_properties" \notin o.keys)
    => /\ o.stream \in DOMAIN schemas => schemas[o.stream] # o
       /\ calls = << >>

====
